---- MODULE Spec2Model ----
(***************************************************************************)
(* Trust Lens backend: the severity-first analysis pipeline of             *)
(* backend/main.py (TrustLensEngine.analyze and what it calls) and the     *)
(* narrative generator of backend/ai_generator.py (TrustLensAI).           *)
(*                                                                         *)
(* Text model.  A text is a sequence of tokens: the words of the text,     *)
(* separated by single blanks, with the token NL standing for a line       *)
(* break.  The texts of the model are built from the lines of a fixed      *)
(* catalogue.  Substring tests ("x in lower") and regular expression       *)
(* searches are computed on the token sequence; what a token contains      *)
(* besides itself (the "no" of "notice", the word parts of a URL) is       *)
(* tabulated in Lower, Infix and WordParts.                                *)
(***************************************************************************)
EXTENDS Integers, Sequences, FiniteSets, TLC

\* ------------------------------------------------------------------ bounds

\* signals in a request of /api/generate-summary
MaxShimSignals == 6

\* signals in a list handed to assess_business_priority on its own
MaxSignals == 3

\* lines of a message (MessageLines) in one request
MaxLines == 3

\* ------------------------------------------------------------- text layer

NL == "\n"

\* str.lower() on one token
Lower(tok) ==
  CASE tok = "Terms"   -> "terms"
    [] tok = "Service" -> "service"
    [] tok = "User"    -> "user"
    [] tok = "Agreement" -> "agreement"
    [] tok = "URGENT"  -> "urgent"
    [] tok = "Acme"    -> "acme"
    [] tok = "Labs"    -> "labs"
    [] tok = "LLC"     -> "llc"
    [] OTHER           -> tok

\* str.lower() on a text
lower(text) == [i \in DOMAIN text |-> Lower(text[i])]

\* The searched literals that occur inside a (lower-cased) token, besides the
\* token itself: at its start, at its end, and elsewhere in it.
Prefixes(tok) ==
  CASE tok = "agreement"      -> {"agree"}
    [] tok = "user"           -> {"use"}
    [] tok = "errors"         -> {"error"}
    [] tok = "notice"         -> {"no", "not"}
    [] tok = "not"            -> {"no"}
    [] tok = "now"            -> {"no"}
    [] tok = "non-refundable" -> {"no"}
    [] tok = "indemnify"      -> {"in", "indemnif"}
    [] tok = "inquiry"        -> {"in"}
    [] tok = "obligations"    -> {"obligation"}
    [] tok = "offer"          -> {"of"}
    [] OTHER                  -> {}

Suffixes(tok) ==
  CASE tok = "your" -> {"our"}
    [] OTHER        -> {}

Inner(tok) ==
  CASE tok = "non-refundable" -> {"refund"}
    [] tok = "court"          -> {"our"}
    [] tok = "binding"        -> {"in"}
    [] tok = "pricing"        -> {"in"}
    [] tok = "termination"    -> {"in"}
    [] tok = "https://linkedin.com/in/acme" -> {"in", "linkedin.com"}
    [] OTHER                  -> {}

Infix(tok) == Prefixes(tok) \cup Suffixes(tok) \cup Inner(tok)

\* the maximal runs of word characters (\w+) of a lower-cased token: what a
\* \b...\b search can match in it
WordParts(tok) ==
  CASE tok = "non-refundable"  -> {"non", "refundable"}
    [] tok = "https://acme.io" -> {"https", "acme", "io"}
    [] tok = "https://linkedin.com/in/acme" -> {"https", "linkedin", "com", "in", "acme"}
    [] tok = "ceo@acme.io"     -> {"ceo", "acme", "io"}
    [] tok = "bob@gmail.com"   -> {"bob", "gmail", "com"}
    [] OTHER                   -> {tok}

Has(tok, lit) == lit = tok \/ lit \in Infix(tok)
StartsWith(tok, lit) == lit = tok \/ lit \in Prefixes(tok)
EndsWith(tok, lit) == lit = tok \/ lit \in Suffixes(tok)

\* the phrase p (words joined by single blanks) occurs in text t from token i
\* on: one word anywhere in the token; of several words the first at the end
\* of its token, the last at the start of its token, the others whole tokens
PhraseAt(t, i, p) ==
  /\ i + Len(p) - 1 <= Len(t)
  /\ IF Len(p) = 1 THEN Has(t[i], p[1])
     ELSE /\ EndsWith(t[i], p[1])
          /\ StartsWith(t[i + Len(p) - 1], p[Len(p)])
          /\ \A k \in 2..(Len(p) - 1) : t[i + k - 1] = p[k]

\* "p in t" for a phrase p
Contains(t, p) == \E s \in {t} : \E i \in 1..Len(s) : PhraseAt(s, i, p)

\* tokens a..b of t hold no line break ('.' does not match a newline)
SameLine(t, a, b) == \A j \in a..b : t[j] # NL

\* One alternative of a regular expression is a sequence of atoms joined by
\* ".*"; an atom is a set of phrases (a group of literals).  AltFrom: atoms
\* k.. of alt are found in this order, on one line, from token `from` on.
RECURSIVE AltFrom(_, _, _, _)
AltFrom(alt, k, t, from) ==
  \/ k > Len(alt)
  \/ \E i \in from..Len(t) : \E p \in alt[k] :
       /\ PhraseAt(t, i, p)
       /\ (k > 1 => SameLine(t, from, i))
       /\ AltFrom(alt, k + 1, t, i + Len(p))

\* re.search(pattern, t) for a pattern given as its set of alternatives
re_search(pattern, t) == \E s \in {t} : \E alt \in pattern : AltFrom(alt, 1, s, 1)

\* re.search(r'\b(w1|w2|...)\b', t) for single words
word_search(words, t) ==
  \E s \in {t} : \E i \in 1..Len(s) : WordParts(s[i]) \cap words # {}

\* --------------------------------------------------------- the input texts

\* lines of messages: context markers, pressure cues, verifiability cues and
\* two clauses
MessageLines ==
  << <<"Terms", "of", "Service">>,
     <<"User", "Agreement">>,
     <<"this", "contract">>,
     <<"strategic", "partnership", "proposal">>,
     <<"customer", "inquiry">>,
     <<"vendor", "pricing", "quote">>,
     <<"job", "offer", "salary">>,
     <<"URGENT">>,
     <<"please", "confirm">>,
     <<"act", "now", "or", "lose", "access">>,
     <<"visit", "https://acme.io">>,
     <<"https://linkedin.com/in/acme">>,
     <<"ceo@acme.io", "from", "Acme", "Labs", "LLC">>,
     <<"bob@gmail.com">>,
     <<"binding", "arbitration", "means", "you", "waive", "jury", "trial">>,
     <<"you", "forfeit", "credits">> >>

\* the header of an agreement
AgreementHeader == <<"Terms", "of", "Service">>

\* lines of agreements: the fourteen CONCERNING_PATTERNS, two to a line in
\* their order, and a pressure line with a URL
AgreementLines ==
  << <<"you", "irrevocably", "agree", "and", "waive", "class", "action", "rights">>,
     <<"we", "modify", "terms", "without", "notice", "and", "sell", "your", "data">>,
     <<"perpetual", "irrevocable", "license", "and", "payments", "are", "non-refundable">>,
     <<"you", "forfeit", "credits", "and", "we", "are", "not", "liable", "for", "data", "loss">>,
     <<"you", "indemnify", "our", "errors", "with", "no", "court", "appeal">>,
     <<"you", "assign", "all", "rights", "and", "silence", "means", "consent">>,
     <<"obligations", "survive", "termination", "and", "you", "consent", "to", "future", "terms">>,
     <<"act", "now", "or", "lose", "access", "at", "https://acme.io">> >>

\* the lines picked by the index set S, in catalogue order, joined by line
\* breaks
RECURSIVE JoinLines(_, _, _)
JoinLines(lines, S, i) ==
  IF i > Len(lines) THEN <<>>
  ELSE LET rest == JoinLines(lines, S, i + 1)
       IN  IF i \notin S THEN rest
           ELSE IF rest = <<>> THEN lines[i]
           ELSE lines[i] \o <<NL>> \o rest

MessageContents ==
  { JoinLines(MessageLines, S, 1) :
      S \in { T \in SUBSET (1..Len(MessageLines)) : Cardinality(T) <= MaxLines } }

\* an agreement: the header and any of the AgreementLines
AgreementContents ==
  { IF S = {} THEN AgreementHeader
    ELSE AgreementHeader \o <<NL>> \o JoinLines(AgreementLines, S, 1) :
      S \in SUBSET (1..Len(AgreementLines)) }

\* the request bodies of the model (AnalysisRequest.content)
Contents == MessageContents \cup AgreementContents

\* AnalysisRequest.content_type
ContentTypes == {"text"}

\* ---------------------------------------------------------- context detector

legal_markers ==
  { <<"terms", "of", "service">>, <<"user", "agreement">>, <<"privacy", "policy">>,
    <<"legal", "agreement">>, <<"contract">>, <<"terms", "and", "conditions">>,
    <<"terms", "of", "use">>, <<"binding", "arbitration">>, <<"liability", "waiver">>,
    <<"indemnification">>, <<"intellectual", "property">> }

partnership_words ==
  { <<"partnership">>, <<"collaboration">>, <<"synergy">>, <<"strategic", "alliance">> }

client_words ==
  { <<"client", "inquiry">>, <<"customer", "inquiry">>,
    <<"interested", "in", "your", "services">> }

vendor_words == { <<"vendor">>, <<"supplier">>, <<"quote">>, <<"pricing">> }

employment_words ==
  { <<"job", "offer">>, <<"employment">>, <<"hiring">>, <<"position">>, <<"salary">> }

\* any(word in lower for word in words)
any_in(words, t) == \E w \in words : Contains(t, w)

\* legal_count: the number of markers that occur
legal_count(t) == Cardinality({ m \in legal_markers : Contains(t, m) })

\* detect_context without the test "'contract' not in lower" of the vendor branch
detect_context_any_vendor(content, content_type) ==
  LET low == lower(content)
  IN  IF \/ legal_count(low) >= 2
         \/ Contains(low, <<"terms", "of", "service">>)
         \/ Contains(low, <<"user", "agreement">>)
        THEN "legal_agreement"
      ELSE IF any_in(partnership_words, low) THEN "partnership_offer"
      ELSE IF any_in(client_words, low) THEN "client_inquiry"
      ELSE IF any_in(vendor_words, low) THEN "vendor_proposal"
      ELSE "consumer_message"

detect_context(content, content_type) ==
  LET low == lower(content)
  IN  IF \/ legal_count(low) >= 2
         \/ Contains(low, <<"terms", "of", "service">>)
         \/ Contains(low, <<"user", "agreement">>)
        THEN "legal_agreement"
      ELSE IF any_in(partnership_words, low) THEN "partnership_offer"
      ELSE IF any_in(client_words, low) THEN "client_inquiry"
      ELSE IF any_in(vendor_words, low) /\ ~Contains(low, <<"contract">>)
        THEN "vendor_proposal"
      ELSE IF any_in(employment_words, low) THEN "consumer_message"
      ELSE "consumer_message"

Contexts ==
  { "legal_agreement", "partnership_offer", "client_inquiry", "vendor_proposal",
    "consumer_message" }

BusinessContexts == { "partnership_offer", "client_inquiry", "vendor_proposal" }


\* ----------------------------------------------------------------- signals

\* Signal(name, level, message, confidence); the confidence in hundredths
Signal(name, level, message, confidence) ==
  [name |-> name, level |-> level, message |-> message, confidence |-> confidence]

\* ---------------------------------------------------------- LegalClauseRule

\* (pattern, name, severity); a pattern is the set of its alternatives
CONCERNING_PATTERNS ==
  << [pattern |-> { << {<<"irrevocably", "agree">>} >>,
                    << {<<"binding", "arbitration">>}, {<<"waive">>},
                       {<<"court">>, <<"trial">>, <<"jury">>} >> },
      name |-> "Binding Arbitration & Rights Waiver", severity |-> "VERY_HIGH"],
     [pattern |-> { << {<<"class", "action">>}, {<<"waive">>} >>,
                    << {<<"waive">>}, {<<"class", "action">>} >> },
      name |-> "Class Action Waiver", severity |-> "VERY_HIGH"],
     [pattern |-> { << {<<"unilateral">>}, {<<"change">>} >>,
                    << {<<"modify">>}, {<<"without", "notice">>} >>,
                    << {<<"without", "notification">>} >> },
      name |-> "Unilateral Modification Rights", severity |-> "HIGH"],
     [pattern |-> { << {<<"sell">>}, {<<"data">>} >>,
                    << {<<"monetize">>}, {<<"data">>} >>,
                    << {<<"third", "parties">>}, {<<"without", "restriction">>} >>,
                    << {<<"transferable">>}, {<<"license">>}, {<<"data">>} >> },
      name |-> "Data Monetization Rights", severity |-> "VERY_HIGH"],
     [pattern |-> { << {<<"perpetual">>}, {<<"irrevocable">>}, {<<"license">>} >>,
                    << {<<"worldwide">>}, {<<"license">>}, {<<"content">>} >> },
      name |-> "Irrevocable Content License", severity |-> "HIGH"],
     [pattern |-> { << {<<"non-refundable">>}, {<<"error">>} >>,
                    << {<<"no">>}, {<<"refund">>}, {<<"error">>} >>,
                    << {<<"payments">>}, {<<"non-refundable">>} >> },
      name |-> "No-Refund Policy", severity |-> "MEDIUM"],
     [pattern |-> { << {<<"forfeit">>}, {<<"balance">>, <<"credits">>} >>,
                    << {<<"void">>}, {<<"benefits">>, <<"rewards">>} >>,
                    << {<<"no", "compensation">>} >> },
      name |-> "Asset Forfeiture on Termination", severity |-> "HIGH"],
     [pattern |-> { << {<<"not", "liable">>}, {<<"theft">>, <<"breach">>, <<"loss">>} >>,
                    << {<<"waiver">>}, {<<"liability">>}, {<<"negligence">>} >> },
      name |-> "Broad Liability Waiver", severity |-> "VERY_HIGH"],
     [pattern |-> { << {<<"indemnif">>}, {<<"our", "negligence">>, <<"our", "errors">>} >>,
                    << {<<"hold", "harmless">>}, {<<"negligence">>} >> },
      name |-> "Indemnification of Negligence", severity |-> "VERY_HIGH"],
     [pattern |-> { << {<<"private", "arbitration">>} >>,
                    << {<<"no">>}, {<<"jury">>, <<"court">>, <<"appeal">>} >> },
      name |-> "Private Arbitration Mandate", severity |-> "HIGH"],
     [pattern |-> { << {<<"intellectual", "property">>}, {<<"become">>}, {<<"ours">>} >>,
                    << {<<"assign">>}, {<<"all", "rights">>} >> },
      name |-> "IP Assignment Clause", severity |-> "HIGH"],
     [pattern |-> { << {<<"silence">>}, {<<"consent">>} >>,
                    << {<<"deemed">>}, {<<"acceptance">>} >>,
                    << {<<"failure">>}, {<<"object">>}, {<<"consent">>} >> },
      name |-> "Silence-as-Consent", severity |-> "HIGH"],
     [pattern |-> { << {<<"survive">>}, {<<"termination">>} >>,
                    << {<<"survive">>}, {<<"death">>} >>,
                    << {<<"perpetual">>}, {<<"obligation">>} >> },
      name |-> "Perpetual Obligation", severity |-> "MEDIUM"],
     [pattern |-> { << {<<"consent">>}, {<<"future">>}, {<<"terms">>} >>,
                    << {<<"terms", "not", "yet", "written">>} >> },
      name |-> "Future Terms Consent", severity |-> "VERY_HIGH"] >>

\* ClauseLevel with red kept for VERY_HIGH alone
ClauseLevelVeryHighOnly(severity) ==
  IF severity = "VERY_HIGH" THEN "red" ELSE "yellow"

\* the level of a clause signal
ClauseLevel(severity) ==
  IF severity \in {"VERY_HIGH", "HIGH"} THEN "red" ELSE "yellow"

\* the confidence of a clause signal
ClauseConfidence(severity) ==
  IF severity = "VERY_HIGH" THEN 95 ELSE IF severity = "HIGH" THEN 85 ELSE 75

\* the signal of one matched pattern
ClauseSignal(p) ==
  Signal(p.name, ClauseLevel(p.severity),
         <<p.severity, " RISK: ", p.name,
           " - This provision significantly affects your rights and recourse options.">>,
         ClauseConfidence(p.severity))

\* the loop of evaluate_all over CONCERNING_PATTERNS[i..]
RECURSIVE ClauseScan(_, _)
ClauseScan(low, i) ==
  IF i > Len(CONCERNING_PATTERNS) THEN <<>>
  ELSE IF re_search(CONCERNING_PATTERNS[i].pattern, low)
    THEN <<ClauseSignal(CONCERNING_PATTERNS[i])>> \o ClauseScan(low, i + 1)
  ELSE ClauseScan(low, i + 1)

\* evaluate_all returning after the first pattern that matches
evaluate_all_first_match(content, context) ==
  IF context # "legal_agreement" THEN <<>>
  ELSE LET found == ClauseScan(lower(content), 1)
       IN  IF found = <<>> THEN <<>> ELSE <<found[1]>>

\* LegalClauseRule.evaluate_all: the list of signals
evaluate_all(content, context) ==
  IF context # "legal_agreement" THEN <<>> ELSE ClauseScan(lower(content), 1)

\* --------------------------------------------------- HighPressurePatternRule

urgency(low) ==
  word_search({"urgent", "asap", "immediately", "now", "today", "hurry", "rush"}, low)

action_demand(low) ==
  word_search({"click", "respond", "reply", "act", "confirm"}, low)

consequence(low) ==
  \/ word_search({"expire", "lose", "forfeit", "limited"}, low)
  \/ \E i \in 1..(Len(low) - 1) : low[i] = "miss" /\ low[i + 1] = "out"

\* a rule's evaluate returns a list: <<>> for None, <<signal>> for a signal
\* HighPressureEvaluate taking urgency with any second cue for the pair
HighPressureEvaluateAnyPair(content, content_type, context) ==
  LET low == lower(content)
  IN  IF urgency(low) /\ action_demand(low) /\ consequence(low)
        THEN << Signal("Predatory Pressure Pattern", "red",
                  <<"URGENT + ACTION DEMAND + CONSEQUENCE = classic manipulation tactic designed to bypass critical thinking.">>,
                  95) >>
      ELSE IF urgency(low) /\ (action_demand(low) \/ consequence(low))
        THEN << Signal("High-Pressure Tactics", "red",
                  <<"Urgency combined with action demands is a common social engineering pattern.">>,
                  85) >>
      ELSE <<>>

HighPressureEvaluate(content, content_type, context) ==
  LET low == lower(content)
  IN  IF urgency(low) /\ action_demand(low) /\ consequence(low)
        THEN << Signal("Predatory Pressure Pattern", "red",
                  <<"URGENT + ACTION DEMAND + CONSEQUENCE = classic manipulation tactic designed to bypass critical thinking.">>,
                  95) >>
      ELSE IF urgency(low) /\ action_demand(low)
        THEN << Signal("High-Pressure Tactics", "red",
                  <<"Urgency combined with action demands is a common social engineering pattern.">>,
                  85) >>
      ELSE <<>>

\* --------------------------------------------------------- VerifiabilityRule

\* r'https?://[^\s]+' matches in the token
UrlLike(tok) == tok \in {"https://acme.io", "https://linkedin.com/in/acme"}

\* r'@[\w]+\.(com|io|ai|co|org|net)' matches in the token
DomainEmailLike(tok) == tok \in {"ceo@acme.io", "bob@gmail.com"}

\* r'\b(Inc\.?|LLC|Ltd\.?|Corp\.?|Company)\b' matches in the token
\* (case-sensitive: the raw token)
CompanySuffixLike(tok) == tok \in {"Inc", "Inc.", "LLC", "Ltd", "Ltd.", "Corp", "Corp.", "Company"}

has_website(content) == \E i \in 1..Len(content) : UrlLike(content[i])
has_linkedin(content) == Contains(lower(content), <<"linkedin.com">>)
has_domain_email(content) == \E i \in 1..Len(content) : DomainEmailLike(content[i])
has_company_name(content) == \E i \in 1..Len(content) : CompanySuffixLike(content[i])

Bit(b) == IF b THEN 1 ELSE 0

verifiable_count(content) ==
  Bit(has_website(content)) + Bit(has_linkedin(content))
    + Bit(has_domain_email(content)) + Bit(has_company_name(content))

\* str() of a small number
Str(n) ==
  CASE n = 0 -> "0" [] n = 1 -> "1" [] n = 2 -> "2" [] n = 3 -> "3" [] n = 4 -> "4"
    [] OTHER -> "?"

\* VerifiabilityEvaluate with the yellow signal kept for one cue alone
VerifiabilityEvaluateOneCue(content, content_type, context) ==
  IF context \notin {"partnership_offer", "client_inquiry", "vendor_proposal"} THEN <<>>
  ELSE LET n == verifiable_count(content)
       IN  IF n = 0
             THEN << Signal("Zero Verifiable Identity", "red",
                       <<"No company website, LinkedIn, corporate email, or legal name provided. Cannot verify legitimacy.">>,
                       90) >>
           ELSE IF n <= 1
             THEN << Signal("Limited Verifiability", "yellow",
                       <<"Only ", Str(n), "/4 verification elements present. Request additional proof of legitimacy.">>,
                       75) >>
           ELSE <<>>

\* VerifiabilityEvaluate without the test of the context
VerifiabilityEvaluateAnyContext(content, content_type, context) ==
  LET n == verifiable_count(content)
  IN  IF n = 0
        THEN << Signal("Zero Verifiable Identity", "red",
                       <<"No company website, LinkedIn, corporate email, or legal name provided. Cannot verify legitimacy.">>,
                       90) >>
      ELSE IF n <= 2
        THEN << Signal("Limited Verifiability", "yellow",
                       <<"Only ", Str(n), "/4 verification elements present. Request additional proof of legitimacy.">>,
                       75) >>
      ELSE <<>>

\* VerifiabilityEvaluate with a green signal for three or four elements
VerifiabilityEvaluateGreen(content, content_type, context) ==
  IF context \notin {"partnership_offer", "client_inquiry", "vendor_proposal"} THEN <<>>
  ELSE LET n == verifiable_count(content)
       IN  IF n = 0
             THEN << Signal("Zero Verifiable Identity", "red",
                       <<"No company website, LinkedIn, corporate email, or legal name provided. Cannot verify legitimacy.">>,
                       90) >>
           ELSE IF n <= 2
             THEN << Signal("Limited Verifiability", "yellow",
                       <<"Only ", Str(n), "/4 verification elements present. Request additional proof of legitimacy.">>,
                       75) >>
           ELSE << Signal("Verified Identity", "green", <<"Identity can be verified.">>, 80) >>

VerifiabilityEvaluate(content, content_type, context) ==
  IF context \notin {"partnership_offer", "client_inquiry", "vendor_proposal"} THEN <<>>
  ELSE LET n == verifiable_count(content)
       IN  IF n = 0
             THEN << Signal("Zero Verifiable Identity", "red",
                       <<"No company website, LinkedIn, corporate email, or legal name provided. Cannot verify legitimacy.">>,
                       90) >>
           ELSE IF n <= 2
             THEN << Signal("Limited Verifiability", "yellow",
                       <<"Only ", Str(n), "/4 verification elements present. Request additional proof of legitimacy.">>,
                       75) >>
           ELSE <<>>


\* ------------------------------------------------------- narrative generator

\* type(rule).__name__ of the rules of self.rules
RuleNames == <<"LegalClauseRule", "HighPressurePatternRule", "VerifiabilityRule">>

\* AISignal built by analyze from signal s at (0-based) position i
AISignal(s, i) ==
  [id |-> <<"sig-", i>>,
   category |-> IF s.level = "red" THEN "risk"
                ELSE IF s.level = "yellow" THEN "uncertainty" ELSE "green",
   title |-> s.name,
   explanation |-> s.message,
   ruleId |-> RuleNames[(i % Len(RuleNames)) + 1],
   severity |-> IF s.level = "red" THEN "high" ELSE "medium"]

\* the signals of AIInput
AISignals(sigs) == [i \in DOMAIN sigs |-> AISignal(sigs[i], i - 1)]

\* TrustLensAI._determine_severity, from input_data.concernCount
_determine_severity(count) ==
  IF count >= 6 THEN "critical"
  ELSE IF count >= 3 THEN "high"
  ELSE IF count >= 1 THEN "moderate"
  ELSE "low"

\* the subsequence of the signals of category risk
RECURSIVE RiskSignals(_)
RiskSignals(sigs) ==
  IF sigs = <<>> THEN <<>>
  ELSE IF Head(sigs).category = "risk" THEN <<Head(sigs)>> \o RiskSignals(Tail(sigs))
  ELSE RiskSignals(Tail(sigs))

\* ', '.join of the titles of sigs
RECURSIVE JoinTitles(_)
JoinTitles(sigs) ==
  IF sigs = <<>> THEN <<>>
  ELSE IF Len(sigs) = 1 THEN <<sigs[1].title>>
  ELSE <<sigs[1].title, ", ">> \o JoinTitles(Tail(sigs))

\* A generated text is the sequence of its pieces.  A fixed text is written
\* without its leading symbol and up to its next non-ASCII character; a fixed
\* paragraph is cut after its first sentence ("[...]").
SystemicRiskParagraph ==
  <<"The combined presence of multiple high-impact clauses creates a systemic power imbalance. [...]">>

HighConcernParagraph ==
  <<"Several concerning provisions work together to shift significant control away from you. [...]">>

\* TrustLensAI._build_compound_explanation
_build_compound_explanation(sigs, context, severity) ==
  IF severity = "critical" THEN SystemicRiskParagraph
  ELSE IF severity = "high" THEN HighConcernParagraph
  ELSE IF severity = "moderate" THEN
    LET risk_signals == RiskSignals(sigs)
    IN  IF risk_signals # <<>>
          THEN <<"Detected ", Str(Len(risk_signals)), " area",
                 IF Len(risk_signals) > 1 THEN "s" ELSE "", " of concern: ">>
               \o JoinTitles(SubSeq(risk_signals, 1, IF Len(risk_signals) < 2 THEN Len(risk_signals) ELSE 2))
               \o <<". These provisions warrant careful review before proceeding.">>
        ELSE <<"Some indicators suggest caution is warranted. [...]">>
  ELSE <<"No significant risk patterns detected. [...]">>

\* _build_what_you_might_miss with client_inquiry left out of the business list
_build_what_you_might_miss_no_client(sigs, context, severity) ==
  IF context = "legal_agreement" THEN
    IF severity \in {"critical", "high"}
      THEN <<"What you might miss: These clauses don't just limit your current rights">>
      ELSE <<"No major red flags detected, but always verify: (1) Can you exit easily? (2) What happens to your data? (3) Can terms change without notice? Standard agreements should allow dispute resolution in court and limit data use to service provision.">>
  ELSE IF context \in {"partnership_offer", "vendor_proposal"} THEN
    IF severity \in {"critical", "high"}
      THEN <<"What you might miss: The urgency pressure combined with limited verifiability is a classic pattern. [...]">>
      ELSE <<"Key verification steps: Confirm company registration, check for active social presence, request references from past partners. [...]">>
  ELSE
    IF severity \in {"critical", "high"}
      THEN <<"What you might miss: Urgency + personal info requests + unknown sender = classic social engineering. [...]">>
      ELSE <<"Verify sender identity through official channels (not reply links). [...]">>

\* TrustLensAI._build_what_you_might_miss
_build_what_you_might_miss(sigs, context, severity) ==
  IF context = "legal_agreement" THEN
    IF severity \in {"critical", "high"}
      THEN <<"What you might miss: These clauses don't just limit your current rights">>
      ELSE <<"No major red flags detected, but always verify: (1) Can you exit easily? (2) What happens to your data? (3) Can terms change without notice? Standard agreements should allow dispute resolution in court and limit data use to service provision.">>
  ELSE IF context \in {"partnership_offer", "vendor_proposal", "client_inquiry"} THEN
    IF severity \in {"critical", "high"}
      THEN <<"What you might miss: The urgency pressure combined with limited verifiability is a classic pattern. [...]">>
      ELSE <<"Key verification steps: Confirm company registration, check for active social presence, request references from past partners. [...]">>
  ELSE
    IF severity \in {"critical", "high"}
      THEN <<"What you might miss: Urgency + personal info requests + unknown sender = classic social engineering. [...]">>
      ELSE <<"Verify sender identity through official channels (not reply links). [...]">>

\* TrustLensAI._build_actions
_build_actions(context, severity, sigs) ==
  IF context = "legal_agreement" THEN
    IF severity = "critical" THEN
      <<"DO NOT ACCEPT without attorney review",
        "Specifically challenge: binding arbitration clause, unilateral change rights, broad data license",
        "Compare against industry-standard terms (e.g., major platform ToS)",
        "Consider opting out",
        "Request modified terms removing arbitration and limiting data use">>
    ELSE IF severity = "high" THEN
      <<"Do not accept without understanding each flagged clause",
        "Mark specific sections for legal review (arbitration, liability, data rights)",
        "Compare data handling and dispute terms against 2-3 similar services",
        "Request clarification on: unilateral changes, termination, data retention",
        "If protections are absent, consider alternative providers">>
    ELSE
      <<"Review standard sections (liability, data use, termination)",
        "Ensure you can delete account and data",
        "Verify dispute resolution is in court, not just arbitration">>
  ELSE IF context \in {"partnership_offer", "vendor_proposal"} THEN
    IF severity \in {"critical", "high"} THEN
      <<"Do not proceed without verification",
        "Request: Company registration, LinkedIn profiles, 2-3 references",
        "Insist on time for due diligence",
        "Search company name + 'scam' or 'complaint'",
        "If they resist verification, disengage immediately">>
    ELSE
      <<"Request company website and LinkedIn verification",
        "Schedule call after confirming company exists",
        "Check references before sharing proprietary information">>
  ELSE
    IF severity \in {"critical", "high"} THEN
      <<"DO NOT CLICK links or respond",
        "Delete message and block sender",
        "Verify independently through official website (not reply links)",
        "Report to platform if applicable",
        "If you already clicked, scan device and change passwords">>
    ELSE
      <<"Verify sender through official channels",
        "Take time",
        "Search message content for known scams">>


\* The enhancement service's answers to the one POST of _enhance_with_gemini:
\* a transport error, a timeout, a non-200 status, a 200 whose JSON has no
\* 'candidates', a 200 whose candidates lack the expected shape, a 200 whose
\* text is blank, a 200 with a rewritten summary.
GeminiResponses ==
  {"exception", "timeout", "status_500", "no_candidates", "malformed", "blank", "ok"}

GeminiFailures == {"exception", "timeout", "status_500", "no_candidates", "malformed"}

RewrittenSummary == <<"(text rewritten by the enhancement service)">>

\* TrustLensAI._enhance_with_gemini: <<>> for None, <<text>> for a text
_enhance_with_gemini(resp) ==
  IF resp = "ok" THEN <<RewrittenSummary>>
  ELSE IF resp = "blank" THEN << <<>> >>
  ELSE <<>>

\* "if enhanced:" - neither None nor the empty string
Truthy(enhanced) == enhanced # <<>> /\ enhanced[1] # <<>>

\* FinalSummary without the test "if enhanced": None leaves no summary
FinalSummaryUnchecked(summary, enhanced) ==
  IF enhanced = <<>> THEN <<>> ELSE enhanced[1]

\* the summary generate_summary returns: the template summary, replaced by
\* the enhanced one when the service was asked and gave one
FinalSummary(summary, enhanced) ==
  IF Truthy(enhanced) THEN enhanced[1] ELSE summary

\* ShouldEnhance without the test of the severity
ShouldEnhanceAnySeverity(api_key, severity) == api_key

\* the guard of the enhancement: "if self.api_key and severity in [...]"
ShouldEnhance(api_key, severity) == api_key /\ severity \in {"critical", "high"}

AIOutput(summary, whatYouMightMiss, actions) ==
  [summary |-> summary, whatYouMightMiss |-> whatYouMightMiss, actions |-> actions]

\* ------------------------------------------------------ business assessment

RECURSIVE CountLevel(_, _)
CountLevel(sigs, level) ==
  IF sigs = <<>> THEN 0
  ELSE Bit(Head(sigs).level = level) + CountLevel(Tail(sigs), level)

RECURSIVE NamesOfLevels(_, _)
NamesOfLevels(sigs, levels) ==
  IF sigs = <<>> THEN <<>>
  ELSE IF Head(sigs).level \in levels
    THEN <<Head(sigs).name>> \o NamesOfLevels(Tail(sigs), levels)
  ELSE NamesOfLevels(Tail(sigs), levels)

\* assess_business_priority with "risk_count <= 1" written "risk_count == 0"
assess_business_priority_no_risk(sigs, context, severity_level) ==
  LET risk_count == CountLevel(sigs, "red")
      green_count == CountLevel(sigs, "green")
      verdict ==
        IF severity_level \in {"critical", "high"}
          THEN <<"low", "ignore", "unfavorable", "Deprioritize">>
        ELSE IF green_count >= 2 /\ risk_count = 0
          THEN <<"high", "engage", "favorable", "Warrants prompt attention">>
        ELSE IF green_count >= 1 /\ risk_count = 0
          THEN <<"medium", "monitor", "neutral", "Evaluate alongside other opportunities">>
        ELSE <<"low", "ignore", "unfavorable", "Does not merit significant time investment">>
      confidence_factors == NamesOfLevels(sigs, {"green"})
      concerns == NamesOfLevels(sigs, {"red", "yellow"})
  IN  [strategicImportance |-> verdict[1],
       attentionWorthiness |-> verdict[2],
       riskToRewardBalance |-> verdict[3],
       timeRecommendation |-> verdict[4],
       confidenceFactors |-> IF confidence_factors # <<>> THEN confidence_factors
                             ELSE <<"Limited positive indicators">>,
       concerns |-> IF concerns # <<>> THEN concerns
                    ELSE <<"No specific concerns flagged">>]

assess_business_priority(sigs, context, severity_level) ==
  LET risk_count == CountLevel(sigs, "red")
      green_count == CountLevel(sigs, "green")
      verdict ==
        IF severity_level \in {"critical", "high"}
          THEN <<"low", "ignore", "unfavorable", "Deprioritize">>
        ELSE IF green_count >= 2 /\ risk_count = 0
          THEN <<"high", "engage", "favorable", "Warrants prompt attention">>
        ELSE IF green_count >= 1 /\ risk_count <= 1
          THEN <<"medium", "monitor", "neutral", "Evaluate alongside other opportunities">>
        ELSE <<"low", "ignore", "unfavorable", "Does not merit significant time investment">>
      confidence_factors == NamesOfLevels(sigs, {"green"})
      concerns == NamesOfLevels(sigs, {"red", "yellow"})
  IN  [strategicImportance |-> verdict[1],
       attentionWorthiness |-> verdict[2],
       riskToRewardBalance |-> verdict[3],
       timeRecommendation |-> verdict[4],
       confidenceFactors |-> IF confidence_factors # <<>> THEN confidence_factors
                             ELSE <<"Limited positive indicators">>,
       concerns |-> IF concerns # <<>> THEN concerns
                    ELSE <<"No specific concerns flagged">>]

\* r'[\w.]+@([\w]+\.(com|io|ai|co|org|net))': group 1 of the match in a token,
\* <<>> when the token has none
EmailDomain(tok) ==
  CASE tok = "ceo@acme.io"   -> <<"acme.io">>
    [] tok = "bob@gmail.com" -> <<"gmail.com">>
    [] OTHER                 -> <<>>

\* the domain of the first e-mail address of the text, <<>> when there is none
HasEmailDomain(tok) == EmailDomain(tok) # <<>>

corp_email(content) ==
  LET found == SelectSeq(content, HasEmailDomain)
  IN  IF found = <<>> THEN <<>> ELSE EmailDomain(found[1])

\* tokens of word characters only ([\w]+), and line breaks: what [\w\s]+ spans
WordOnly(tok) ==
  tok \notin {"https://acme.io", "https://linkedin.com/in/acme", "ceo@acme.io",
              "bob@gmail.com", "non-refundable"}

\* the token ends with at, from or of
PrepositionEnd(tok) == tok \in {"at", "from", "of"}

\* the token starts with a capital letter, further characters following
Capitalised(tok) ==
  tok \in {"Terms", "Service", "User", "Agreement", "URGENT", "Acme", "Labs", "LLC"}

\* the token holds one of Inc, LLC, Ltd, Corp, Company, Solutions,
\* Technologies, AI, Labs
NameSuffix(tok) == tok \in {"Labs", "LLC"}

\* re.findall(r'(?:at|from|of)\s+([A-Z][\w\s]+(?:Inc|...|Labs))', content)
\* finds something
company_patterns(content) ==
  \E i \in 1..Len(content) : \E j \in (i + 2)..Len(content) :
    /\ PrepositionEnd(content[i])
    /\ Capitalised(content[i + 1])
    /\ \A k \in (i + 1)..j : WordOnly(content[k])
    /\ NameSuffix(content[j])

assess_company(content, scraped) ==
  LET email == corp_email(content)
      personal == email # <<>> /\ email[1] \in {"gmail.com", "yahoo.com", "hotmail.com", "outlook.com"}
      flags1 == IF email = <<>> THEN <<"No corporate email provided">>
                ELSE IF personal THEN <<"Using personal email provider">> ELSE <<>>
      conf1 == IF email # <<>> /\ ~personal THEN <<"Corporate email domain">> ELSE <<>>
      track_record == IF email = <<>> THEN "unknown"
                      ELSE IF personal THEN "unverified" ELSE "claimed"
      named == company_patterns(content)
      flags2 == IF named THEN flags1 ELSE flags1 \o <<"Limited public visibility">>
      conf2 == IF named THEN conf1 \o <<"Company name provided">> ELSE conf1
      scrape_ok == scraped # <<>> /\ scraped[1].success
      social == scrape_ok /\ scraped[1].social_links # <<>>
  IN  [visibility |-> IF ~scrape_ok THEN "unknown"
                      ELSE IF social THEN "moderate" ELSE "limited",
       trackRecord |-> track_record,
       flags |-> IF scrape_ok /\ ~social THEN flags2 \o <<"Limited online presence">> ELSE flags2,
       confidenceFactors |-> IF social THEN conf2 \o <<"Active social media presence">> ELSE conf2]

\* ------------------------------------------------------------ WebsiteScraper

\* re.findall(r'https?://[^\s<>"{}|\\^`\[\]]+', content): the URLs of the text
find_urls(content) == SelectSeq(content, UrlLike)

\* WebsiteScraper._extract_domain
_extract_domain(url) ==
  CASE url = "https://acme.io" -> "acme.io"
    [] url = "https://linkedin.com/in/acme" -> "linkedin.com"
    [] OTHER -> url

\* The scrape service's answers to the one GET of scrape: a transport error or
\* timeout, a non-200 status, a page without and a page with social links.
ScrapeResponses == {"exception", "status_500", "page_plain", "page_social"}

\* WebsiteScraper.scrape: the dictionary returned; resp is read only when a
\* key is configured
scrape(url, key, resp) ==
  IF ~key THEN [success |-> FALSE, error |-> "SCRAPE_DO_API_KEY not set"]
  ELSE IF resp = "exception" THEN [success |-> FALSE, error |-> "str(e)"]
  ELSE IF resp = "status_500" THEN [success |-> FALSE, error |-> "Scrape.do error: HTTP 500"]
  ELSE [success |-> TRUE,
        title |-> "Acme",
        description |-> "",
        has_contact |-> TRUE,
        has_about |-> TRUE,
        social_links |-> IF resp = "page_social" THEN <<"linkedin.com">> ELSE <<>>,
        domain |-> _extract_domain(url)]


\* -------------------------------------------------------------------- engine

\* TrustLensEngine.rules, in the order of __init__
rules == <<"LegalClauseRule", "HighPressurePatternRule", "VerifiabilityRule">>

\* ConcernCount counting every signal, whatever its level
ConcernCountAnyLevel(sigs) == Len(sigs)

\* concern_count = sum(1 for s in signals if s.level == SignalLevel.RED)
ConcernCount(sigs) == CountLevel(sigs, "red")

\* Severity with the critical threshold written "> 6"
SeverityAboveSix(count) ==
  IF count > 6
    THEN [severity_level |-> "critical", overall_level |-> "CRITICAL RISK", score |-> 15]
  ELSE IF count >= 3
    THEN [severity_level |-> "high", overall_level |-> "HIGH CONCERN", score |-> 35]
  ELSE IF count >= 1
    THEN [severity_level |-> "moderate", overall_level |-> "MODERATE RISK", score |-> 55]
  ELSE [severity_level |-> "low", overall_level |-> "LOW RISK", score |-> 80]

\* the chain "if concern_count >= 6 ... else" of analyze
Severity(count) ==
  IF count >= 6
    THEN [severity_level |-> "critical", overall_level |-> "CRITICAL RISK", score |-> 15]
  ELSE IF count >= 3
    THEN [severity_level |-> "high", overall_level |-> "HIGH CONCERN", score |-> 35]
  ELSE IF count >= 1
    THEN [severity_level |-> "moderate", overall_level |-> "MODERATE RISK", score |-> 55]
  ELSE [severity_level |-> "low", overall_level |-> "LOW RISK", score |-> 80]

\* AIInput as analyze builds it
AIInput(inputType, originalInput, detectedContext, sigs, concernCount, severityLevel) ==
  [inputType |-> inputType, originalInput |-> originalInput,
   detectedContext |-> detectedContext, signals |-> sigs,
   concernCount |-> concernCount, severityLevel |-> severityLevel]

\* generate_summary up to the enhancement: the severity it derives and the
\* three template texts
Templates(input_data) ==
  LET severity == _determine_severity(input_data.concernCount)
  IN  [severity |-> severity,
       summary |-> _build_compound_explanation(input_data.signals, input_data.detectedContext, severity),
       what_you_might_miss |-> _build_what_you_might_miss(input_data.signals, input_data.detectedContext, severity),
       actions |-> _build_actions(input_data.detectedContext, severity, input_data.signals)]

\* BusinessPriority with client_inquiry left out of the list of contexts
BusinessPriorityNoClient(sigs, context, severity_level) ==
  IF context \in {"partnership_offer", "vendor_proposal"}
    THEN <<assess_business_priority(sigs, context, severity_level)>> ELSE <<>>

\* the business assessments of analyze: <<>> for None
BusinessPriority(sigs, context, severity_level) ==
  IF context \in {"partnership_offer", "client_inquiry", "vendor_proposal"}
    THEN <<assess_business_priority(sigs, context, severity_level)>> ELSE <<>>

CompanyAssessment(content, context, scraped) ==
  IF context \in {"partnership_offer", "client_inquiry", "vendor_proposal"}
    THEN <<assess_company(content, scraped)>> ELSE <<>>

VARIABLES
  api_key,          \* TrustLensAI.api_key is set (GEMINI_API_KEY)
  scrape_key,       \* WebsiteScraper.SCRAPE_DO_API_KEY is set
  content,          \* the request: AnalysisRequest.content
  content_type,     \* the request: AnalysisRequest.content_type
  pc,               \* where analyze stands
  context,          \* analyze: context
  scraped,          \* analyze: scraped, <<>> for None
  signals,          \* analyze: signals
  order,            \* the order in which the loop takes the rules
  rule_index,       \* analyze: the position of the loop over self.rules
  concern_count,    \* analyze: concern_count
  severity,         \* analyze: severity_level, overall_level, score
  ai,               \* generate_summary: severity, summary, what_you_might_miss, actions
  gemini,           \* what the enhancement service answered, "not_called" if not asked
  ai_result,        \* analyze: ai_result, <<>> before generate_summary returns
  log,              \* the events of the request, in order
  result,           \* the TrustAnalysis returned, <<>> before
  ai_input,         \* the AIInput handed to generate_summary, <<>> before
  request,          \* the AIGenerateRequest of /api/generate-summary, <<>> if none
  response,         \* the AIGenerateResponse returned, <<>> before
  priority          \* what a call of assess_business_priority returned, <<>> before

vars ==
  <<api_key, scrape_key, content, content_type, pc, context, scraped, signals,
    order, rule_index, concern_count, severity, ai, gemini, ai_result, log, result,
    ai_input, request, response, priority>>

\* RuleSignals with the High-Pressure Pattern Rule looking at the shared list:
\* silent once another rule has reported
RuleSignalsShared(rule, text, type, ctx) ==
  IF rule = "LegalClauseRule" THEN evaluate_all(text, ctx)
  ELSE IF rule = "HighPressurePatternRule"
    THEN IF signals # <<>> THEN <<>> ELSE HighPressureEvaluate(text, type, ctx)
  ELSE VerifiabilityEvaluate(text, type, ctx)

\* one pass of the loop "for rule in self.rules": what the rule adds to signals
RuleSignals(rule, text, type, ctx) ==
  IF rule = "LegalClauseRule" THEN evaluate_all(text, ctx)
  ELSE IF rule = "HighPressurePatternRule" THEN HighPressureEvaluate(text, type, ctx)
  ELSE VerifiabilityEvaluate(text, type, ctx)

\* The events of one call of WebsiteScraper.scrape: the GET is sent once, and
\* only with a key configured; no answer makes scrape send it again.
scrape_events(key, resp) ==
  <<"scrape.call">> \o (IF key THEN <<"scrape.http_get">> ELSE <<>>) \o <<"scrape.return">>

\* An exception leaves scrape: never, its whole body stands in
\* "try ... except Exception".
scrape_raises(key, resp) == FALSE

\* enhance_events with the POST sent a second time after a failure
enhance_events_retry(resp) ==
  IF resp \in GeminiFailures
    THEN <<"enhance.call", "enhance.http_post", "enhance.http_post", "enhance.return">>
  ELSE <<"enhance.call", "enhance.http_post", "enhance.return">>

\* The events of the enhancement in generate_summary: _enhance_with_gemini is
\* called once and sends one POST; no answer makes it send another.
enhance_events(resp) == <<"enhance.call", "enhance.http_post", "enhance.return">>

\* enhance_raises with the timeout of the POST left uncaught
enhance_raises_on_timeout(resp) == resp = "timeout"

\* An exception leaves generate_summary: never, _enhance_with_gemini catches
\* what the POST and the parsing raise, and generate_summary what is left.
enhance_raises(resp) == FALSE

NoSeverity == [severity_level |-> "", overall_level |-> "", score |-> 0]
NoTemplates == [severity |-> "", summary |-> <<>>, what_you_might_miss |-> <<>>, actions |-> <<>>]

\* The state once the engine and the generator are constructed (the keys read
\* from the environment) and a request is accepted, the keys drawn from keys
\* and the order of the rules from orders.
InitFrom(keys, orders) ==
  /\ api_key \in keys
  /\ scrape_key \in keys
  /\ content \in Contents
  /\ content_type \in ContentTypes
  /\ pc = "detect"
  /\ context = ""
  /\ scraped = <<>>
  /\ signals = <<>>
  /\ order \in orders
  /\ rule_index = 0
  /\ concern_count = 0
  /\ severity = NoSeverity
  /\ ai = NoTemplates
  /\ gemini = "not_called"
  /\ ai_result = <<>>
  /\ log = <<>>
  /\ result = <<>>
  /\ ai_input = <<>>
  /\ request = <<>>
  /\ response = <<>>
  /\ priority = <<>>

\* the program: the loop takes the rules in the order of self.rules
Init == InitFrom(BOOLEAN, {rules})

\* context = detect_context(content, content_type)
DetectContext ==
  /\ pc = "detect"
  /\ context' = detect_context(content, content_type)
  /\ log' = Append(log, "detect_context")
  /\ pc' = "scrape"
  /\ UNCHANGED <<api_key, scrape_key, content, content_type, scraped, signals,
                 order, rule_index, concern_count, severity, ai, gemini, ai_result, result,
                 ai_input, request, response, priority>>

\* urls = re.findall(...); scraped = await self.scraper.scrape(urls[0]) if urls
ExtractAndScrape ==
  /\ pc = "scrape"
  /\ LET urls == find_urls(content)
     IN  IF urls = <<>>
           THEN /\ scraped' = <<>>
                /\ log' = log
                /\ pc' = "rules"
           ELSE \E resp \in ScrapeResponses :
                  /\ scraped' = <<scrape(urls[1], scrape_key, resp)>>
                  /\ log' = log \o scrape_events(scrape_key, resp)
                  /\ pc' = IF scrape_raises(scrape_key, resp) THEN "error" ELSE "rules"
  /\ rule_index' = 1
  /\ UNCHANGED <<api_key, scrape_key, content, content_type, context, signals,
                 order, concern_count, severity, ai, gemini, ai_result, result,
                 ai_input, request, response, priority>>

\* one pass of "for rule in self.rules"
EvaluateRule ==
  /\ pc = "rules"
  /\ signals' = signals \o RuleSignals(order[rule_index], content, content_type, context)
  /\ log' = Append(log, order[rule_index])
  /\ rule_index' = rule_index + 1
  /\ pc' = IF rule_index = Len(order) THEN "severity" ELSE "rules"
  /\ UNCHANGED <<api_key, scrape_key, content, content_type, context, scraped,
                 order, concern_count, severity, ai, gemini, ai_result, result,
                 ai_input, request, response, priority>>

\* concern_count and the severity chain
CalculateSeverity ==
  /\ pc = "severity"
  /\ concern_count' = ConcernCount(signals)
  /\ severity' = Severity(ConcernCount(signals))
  /\ log' = Append(log, "severity")
  /\ pc' = "narrative"
  /\ UNCHANGED <<api_key, scrape_key, content, content_type, context, scraped, signals,
                 order, rule_index, ai, gemini, ai_result, result,
                 ai_input, request, response, priority>>

\* ai_input is built and generate_summary builds the three templates
BuildNarrative ==
  /\ pc = "narrative"
  /\ ai_input' = <<AIInput(content_type, content, context, AISignals(signals),
                            concern_count, severity.severity_level)>>
  /\ ai' = Templates(ai_input'[1])
  /\ log' = Append(log, "templates")
  /\ pc' = "enhance"
  /\ UNCHANGED <<api_key, scrape_key, content, content_type, context, scraped, signals,
                 order, rule_index, concern_count, severity, gemini, ai_result, result,
                 request, response, priority>>

\* "if self.api_key and severity in [...]": the enhancement, and the return of
\* generate_summary
Enhance ==
  /\ pc = "enhance"
  /\ IF ShouldEnhance(api_key, ai.severity)
       THEN \E resp \in GeminiResponses :
              /\ gemini' = resp
              /\ ai_result' = <<AIOutput(FinalSummary(ai.summary, _enhance_with_gemini(resp)),
                                         ai.what_you_might_miss, ai.actions)>>
              /\ log' = log \o enhance_events(resp)
              /\ pc' = IF enhance_raises(resp) THEN "error" ELSE "assemble"
       ELSE /\ gemini' = "not_called"
            /\ ai_result' = <<AIOutput(ai.summary, ai.what_you_might_miss, ai.actions)>>
            /\ log' = log
            /\ pc' = "assemble"
  /\ UNCHANGED <<api_key, scrape_key, content, content_type, context, scraped, signals,
                 order, rule_index, concern_count, severity, ai, result,
                 ai_input, request, response, priority>>

\* the business assessments and the TrustAnalysis returned
Assemble ==
  /\ pc = "assemble"
  /\ result' = << [overall_score |-> severity.score,
                   overall_level |-> severity.overall_level,
                   signals |-> signals,
                   external_checks |-> <<>>,
                   summary |-> ai_result[1].summary,
                   whatYouMightMiss |-> ai_result[1].whatYouMightMiss,
                   recommendedActions |-> ai_result[1].actions,
                   businessPriority |-> BusinessPriority(signals, context, severity.severity_level),
                   companyAssessment |-> CompanyAssessment(content, context, scraped),
                   detectedContext |-> context,
                   concernCount |-> concern_count,
                   severityLevel |-> severity.severity_level] >>
  /\ log' = Append(log, "result")
  /\ pc' = "done"
  /\ UNCHANGED <<api_key, scrape_key, content, content_type, context, scraped, signals,
                 order, rule_index, concern_count, severity, ai, gemini, ai_result,
                 ai_input, request, response, priority>>

Next ==
  \/ DetectContext
  \/ ExtractAndScrape
  \/ EvaluateRule
  \/ CalculateSeverity
  \/ BuildNarrative
  \/ Enhance
  \/ Assemble

Spec == Init /\ [][Next]_vars

\* The event loop runs the coroutine of a request on to its return: every
\* await is of a call that returns or raises within its timeout.
FairSpec == Spec /\ WF_vars(Next)

\* The orders in which three rules can be taken
RuleOrders ==
  { o \in [1..Len(rules) -> {rules[i] : i \in 1..Len(rules)}] :
      \A i, j \in 1..Len(rules) : i # j => o[i] # o[j] }

\* The engine with the loop over the rules taking them in any order, no key
\* configured.
InitAnyOrder == InitFrom({FALSE}, RuleOrders)

SpecAnyOrder == InitAnyOrder /\ [][Next]_vars

\* ------------------------------------------- assess_business_priority alone

\* Signal values of the three levels (SignalLevel.RED, YELLOW, GREEN)
SignalValues ==
  { Signal("Zero Verifiable Identity", "red", <<"No identity">>, 90),
    Signal("High-Pressure Tactics", "red", <<"Urgency">>, 85),
    Signal("Limited Verifiability", "yellow", <<"Few elements">>, 75),
    Signal("Verified Website", "green", <<"Website found">>, 80),
    Signal("Corporate Email", "green", <<"Corporate domain">>, 80) }

\* the lists of at most MaxSignals signals
SignalLists == UNION { [1..n -> SignalValues] : n \in 0..MaxSignals }

\* a call of assess_business_priority(signals, context, severity_level) with
\* any list of signals, any context and any severity level
InitPriority ==
  /\ api_key = FALSE
  /\ scrape_key = FALSE
  /\ content = <<>>
  /\ content_type = "text"
  /\ pc = "priority"
  /\ context \in Contexts
  /\ scraped = <<>>
  /\ signals \in SignalLists
  /\ order = rules
  /\ rule_index = 0
  /\ concern_count = ConcernCount(signals)
  /\ severity \in { Severity(n) : n \in {0, 1, 3, 6} }
  /\ ai = NoTemplates
  /\ gemini = "not_called"
  /\ ai_result = <<>>
  /\ log = <<>>
  /\ result = <<>>
  /\ ai_input = <<>>
  /\ request = <<>>
  /\ response = <<>>
  /\ priority = <<>>

\* business_priority = assess_business_priority(signals, context, severity_level)
AssessPriority ==
  /\ pc = "priority"
  /\ priority' = <<assess_business_priority(signals, context, severity.severity_level)>>
  /\ pc' = "priority_done"
  /\ UNCHANGED <<api_key, scrape_key, content, content_type, context, scraped, signals,
                 order, rule_index, concern_count, severity, ai, gemini, ai_result, log,
                 result, ai_input, request, response>>

NextPriority == AssessPriority

SpecPriority == InitPriority /\ [][NextPriority]_vars


\* ----------------------------------------------- /api/generate-summary

\* a value that is not a string (None) in a dict of the request
None == "<None>"

\* The dicts of request.signals: a risk signal with a title, a risk signal
\* without one, the empty dict, and a dict whose title is None.
SignalDicts ==
  { [category |-> "risk", title |-> "Binding Arbitration"],
    [category |-> "risk"],
    [x \in {} |-> ""],
    [category |-> "risk", title |-> None] }

\* sig.get(key, default)
Get(sig, key, default) == IF key \in DOMAIN sig THEN sig[key] ELSE default

\* the contexts a request may name: those of detect_context and any other text
ShimContexts == Contexts \cup {"general"}

\* AIGenerateRequest
AIGenerateRequests ==
  { [inputType |-> "text", originalInput |-> <<>>, detectedContext |-> c, signals |-> ss] :
      c \in ShimContexts,
      ss \in UNION { [1..n -> SignalDicts] : n \in 0..MaxShimSignals } }

\* AISignal(id=sig.get('id', 'unknown'), ...)
ShimSignal(sig) ==
  [id |-> <<Get(sig, "id", "unknown")>>,
   category |-> Get(sig, "category", "uncertainty"),
   title |-> Get(sig, "title", "Unknown"),
   explanation |-> Get(sig, "explanation", ""),
   ruleId |-> Get(sig, "ruleId", "unknown"),
   severity |-> Get(sig, "severity", "medium")]

\* the model rejects a field that is not a string: AISignal(...) raises
ShimSignalRaises(sig) ==
  \E key \in {"id", "category", "title", "explanation", "ruleId"} :
     key \in DOMAIN sig /\ sig[key] = None

\* len([s for s in request.signals if s.get('category') == 'risk'])
ShimConcernCount(sigs) ==
  Cardinality({ i \in DOMAIN sigs : Get(sigs[i], "category", None) = "risk" })

\* severityLevel='low'
ShimSeverityLevel(sigs) == "low"

\* the AIInput the endpoint builds
ShimAIInput(req) ==
  AIInput(req.inputType, req.originalInput, req.detectedContext,
          [i \in DOMAIN req.signals |-> ShimSignal(req.signals[i])],
          ShimConcernCount(req.signals), ShimSeverityLevel(req.signals))

AIGenerateResponse(summary, modelUsed, fallback) ==
  [summary |-> summary, modelUsed |-> modelUsed, fallback |-> fallback]

\* the response of the except branch
FallbackResponse ==
  AIGenerateResponse(<<"Analysis complete. Review the detected signals.">>, "fallback", TRUE)

\* the state once a request of /api/generate-summary is accepted
InitShim ==
  /\ api_key \in BOOLEAN
  /\ scrape_key = FALSE
  /\ content = <<>>
  /\ content_type = "text"
  /\ pc = "shim"
  /\ context = ""
  /\ scraped = <<>>
  /\ signals = <<>>
  /\ order = rules
  /\ rule_index = 0
  /\ concern_count = 0
  /\ severity = NoSeverity
  /\ ai = NoTemplates
  /\ gemini = "not_called"
  /\ ai_result = <<>>
  /\ log = <<>>
  /\ result = <<>>
  /\ ai_input = <<>>
  /\ request \in { <<r>> : r \in AIGenerateRequests }
  /\ response = <<>>
  /\ priority = <<>>

\* the signals are converted and ai_input is built, or a conversion raises and
\* the except branch answers; generate_summary builds the three templates
ShimBuildNarrative ==
  /\ pc = "shim"
  /\ IF \E i \in DOMAIN request[1].signals : ShimSignalRaises(request[1].signals[i])
       THEN /\ response' = <<FallbackResponse>>
            /\ pc' = "shim_done"
            /\ log' = Append(log, "fallback")
            /\ UNCHANGED <<ai_input, ai>>
       ELSE /\ ai_input' = <<ShimAIInput(request[1])>>
            /\ ai' = Templates(ai_input'[1])
            /\ log' = Append(log, "templates")
            /\ pc' = "shim_enhance"
            /\ UNCHANGED response
  /\ UNCHANGED <<api_key, scrape_key, content, content_type, context, scraped, signals,
                 order, rule_index, concern_count, severity, gemini, ai_result, result,
                 request, priority>>

\* the enhancement and the return of generate_summary, as in analyze
ShimEnhance ==
  /\ pc = "shim_enhance"
  /\ IF ShouldEnhance(api_key, ai.severity)
       THEN \E resp \in GeminiResponses :
              /\ gemini' = resp
              /\ ai_result' = <<AIOutput(FinalSummary(ai.summary, _enhance_with_gemini(resp)),
                                         ai.what_you_might_miss, ai.actions)>>
              /\ log' = log \o enhance_events(resp)
              /\ pc' = IF enhance_raises(resp) THEN "shim_except" ELSE "shim_respond"
       ELSE /\ gemini' = "not_called"
            /\ ai_result' = <<AIOutput(ai.summary, ai.what_you_might_miss, ai.actions)>>
            /\ log' = log
            /\ pc' = "shim_respond"
  /\ UNCHANGED <<api_key, scrape_key, content, content_type, context, scraped, signals,
                 order, rule_index, concern_count, severity, ai, result,
                 ai_input, request, response, priority>>

\* return AIGenerateResponse(summary=result.summary, modelUsed="trustlens-v3", fallback=False)
ShimRespond ==
  /\ pc = "shim_respond"
  /\ response' = <<AIGenerateResponse(ai_result[1].summary, "trustlens-v3", FALSE)>>
  /\ log' = Append(log, "response")
  /\ pc' = "shim_done"
  /\ UNCHANGED <<api_key, scrape_key, content, content_type, context, scraped, signals,
                 order, rule_index, concern_count, severity, ai, gemini, ai_result, result,
                 ai_input, request, priority>>

NextShim ==
  \/ ShimBuildNarrative
  \/ ShimEnhance
  \/ ShimRespond

SpecShim == InitShim /\ [][NextShim]_vars


\* ==================================================================== claims

Tiers == <<"low", "moderate", "high", "critical">>

\* the position of a tier in low < moderate < high < critical
Rank(tier) == CHOOSE i \in 1..Len(Tiers) : Tiers[i] = tier

\* the signals of sigs whose level is red, by position
RedPositions(sigs) == { i \in DOMAIN sigs : sigs[i].level = "red" }

\* C1: in every Analysis Result returned, concernCount is exactly the number
\* of signals of the result whose level is red; yellow and green signals do
\* not count.
C1_ConcernCountIsRedCount ==
  result # <<>> =>
    result[1].concernCount = Cardinality(RedPositions(result[1].signals))

\* a result with red signals and a yellow one
C1_Witness ==
  /\ result # <<>>
  /\ result[1].concernCount >= 2
  /\ \E i \in DOMAIN result[1].signals : result[1].signals[i].level = "yellow"

\* the table of the claim: the tier and the score of a concern count
C2_Table(n) ==
  IF n = 0 THEN <<"low", 80>>
  ELSE IF n \in {1, 2} THEN <<"moderate", 55>>
  ELSE IF n \in {3, 4, 5} THEN <<"high", 35>>
  ELSE <<"critical", 15>>

\* the concern counts the rules can produce
PossibleCounts == 0..(Len(CONCERNING_PATTERNS) + Len(rules))

\* C2: the result's (severityLevel, overall_score) is (low, 80) for a concern
\* count of 0, (moderate, 55) for 1 or 2, (high, 35) for 3 to 5, (critical, 15)
\* from 6 on; as the count grows the tier never decreases and the score never
\* increases.
C2_SeverityStepFunction ==
  /\ result # <<>> =>
       <<result[1].severityLevel, result[1].overall_score>> = C2_Table(result[1].concernCount)
  /\ result # <<>> =>
       \A m \in PossibleCounts :
         LET lo == IF m <= result[1].concernCount THEN m ELSE result[1].concernCount
             hi == IF m <= result[1].concernCount THEN result[1].concernCount ELSE m
         IN  /\ Rank(Severity(lo).severity_level) <= Rank(Severity(hi).severity_level)
             /\ Severity(lo).score >= Severity(hi).score

\* a result at the threshold of the critical tier
C2_Witness ==
  /\ result # <<>>
  /\ result[1].concernCount = 6
  /\ result[1].severityLevel = "critical"
  /\ result[1].overall_score = 15

\* C3: in every result, businessPriority and companyAssessment are both
\* present when detectedContext is partnership_offer, client_inquiry or
\* vendor_proposal and both absent otherwise, whatever the scrape did.
C3_BusinessAssessmentsIffBusinessContext ==
  result # <<>> =>
    LET business == result[1].detectedContext \in
                      {"partnership_offer", "client_inquiry", "vendor_proposal"}
    IN  /\ (result[1].businessPriority # <<>>) <=> business
        /\ (result[1].companyAssessment # <<>>) <=> business

\* a client inquiry whose scrape failed, with both assessments
C3_Witness ==
  /\ result # <<>>
  /\ result[1].detectedContext = "client_inquiry"
  /\ scraped # <<>> /\ ~scraped[1].success
  /\ result[1].businessPriority # <<>>
  /\ result[1].companyAssessment # <<>>

\* the signals of the request, the rules taken in the order of self.rules
ReferenceSignals ==
  LET ctx == detect_context(content, content_type)
  IN  evaluate_all(content, ctx)
        \o HighPressureEvaluate(content, content_type, ctx)
        \o VerifiabilityEvaluate(content, content_type, ctx)

\* what generate_summary returns for the request, ref being its signals, when
\* it asks no enhancement
PlainNarrative(ref) ==
  LET ctx == detect_context(content, content_type)
      count == ConcernCount(ref)
      t == Templates(AIInput(content_type, content, ctx, AISignals(ref),
                             count, Severity(count).severity_level))
  IN  AIOutput(t.summary, t.what_you_might_miss, t.actions)

\* C4: when the enhancement call fails (exception, timeout, non-200 status,
\* no 'candidates', candidates of another shape), nothing is raised and the
\* result has the concern count, severity tier, whatYouMightMiss, actions and
\* summary of the run without enhancement, the summary being the template's;
\* a run that asks no enhancement returns just these.
C4_EnhancementFailureIsSilent ==
  /\ gemini \in GeminiFailures => pc # "error"
  /\ (result # <<>> /\ gemini \in GeminiFailures \cup {"not_called"}) =>
       LET ref == ReferenceSignals
           count == ConcernCount(ref)
           plain == PlainNarrative(ref)
       IN  /\ result[1].concernCount = count
           /\ result[1].severityLevel = Severity(count).severity_level
           /\ result[1].summary = plain.summary
           /\ result[1].whatYouMightMiss = plain.whatYouMightMiss
           /\ result[1].recommendedActions = plain.actions
           /\ result[1].summary = ai.summary

\* a result returned after the enhancement service timed out
C4_Witness ==
  /\ result # <<>>
  /\ gemini = "timeout"
  /\ result[1].severityLevel = "critical"


Levels == {"red", "yellow", "green"}

\* a signal of the result: name, level, message and a confidence in 0..1
WellFormedSignal(s) ==
  /\ DOMAIN s = {"name", "level", "message", "confidence"}
  /\ s.name \in STRING
  /\ s.level \in Levels
  /\ s.confidence \in 0..100

\* a TrustAnalysis with every field of the model filled as the response model
\* requires
WellFormed(r) ==
  /\ r.overall_score \in 0..100
  /\ r.overall_level \in {"LOW RISK", "MODERATE RISK", "HIGH CONCERN", "CRITICAL RISK"}
  /\ r.severityLevel \in {Tiers[i] : i \in 1..Len(Tiers)}
  /\ r.detectedContext \in Contexts
  /\ r.concernCount \in 0..Len(r.signals)
  /\ \A i \in DOMAIN r.signals : WellFormedSignal(r.signals[i])
  /\ r.summary # <<>>
  /\ r.whatYouMightMiss # <<>>
  /\ Len(r.recommendedActions) >= 1
  /\ Len(r.businessPriority) <= 1
  /\ Len(r.companyAssessment) <= 1

\* C5: every accepted request runs on to its return and returns a well-formed
\* TrustAnalysis, whatever the text (the empty one included) and whatever the
\* scrape and the enhancement did; the pipeline never ends in an error.
C5_EveryRequestCompletes ==
  /\ [](pc # "error")
  /\ <>(pc = "done" /\ result # <<>> /\ WellFormed(result[1]))

\* a request returned although the scrape answered an HTTP error and the
\* enhancement raised
C5_Witness ==
  /\ pc = "done"
  /\ result # <<>>
  /\ scrape_key /\ scraped # <<>> /\ ~scraped[1].success
  /\ gemini = "exception"

\* C6: detect_context gives one of the five tags, by priority: legal_agreement
\* if two or more legal markers occur or 'terms of service' or 'user agreement'
\* occurs; else partnership_offer on a partnership keyword; else client_inquiry
\* on a client-inquiry phrase; else vendor_proposal on a vendor keyword without
\* 'contract'; else consumer_message.  The context is assigned once, by
\* DetectContext: the table is compared in the state that follows it.
C6_ContextByPriority ==
  /\ pc # "detect" => context \in Contexts
  /\ pc = "scrape" =>
    LET low == lower(content)
        occurs(p) == \E i \in 1..Len(low) : PhraseAt(low, i, p)
        markers == { m \in legal_markers : occurs(m) }
        legal == \/ Cardinality(markers) >= 2
                 \/ occurs(<<"terms", "of", "service">>)
                 \/ occurs(<<"user", "agreement">>)
        partner == \E w \in partnership_words : occurs(w)
        client == \E w \in client_words : occurs(w)
        vendor == (\E w \in vendor_words : occurs(w)) /\ ~occurs(<<"contract">>)
    IN  /\ context \in Contexts
        /\ legal => context = "legal_agreement"
        /\ (~legal /\ partner) => context = "partnership_offer"
        /\ (~legal /\ ~partner /\ client) => context = "client_inquiry"
        /\ (~legal /\ ~partner /\ ~client /\ vendor) => context = "vendor_proposal"
        /\ (~legal /\ ~partner /\ ~client /\ ~vendor) => context = "consumer_message"

\* a text with a vendor keyword and 'contract' as its one legal marker is a
\* consumer message
C6_Witness ==
  /\ pc # "detect"
  /\ any_in(vendor_words, lower(content))
  /\ Contains(lower(content), <<"contract">>)
  /\ context = "consumer_message"

\* the patterns of the Legal Clause Rule that match the request, by position
MatchingPatterns ==
  { i \in 1..Len(CONCERNING_PATTERNS) :
      re_search(CONCERNING_PATTERNS[i].pattern, lower(content)) }

\* C7: in the loop over the rules, the High-Pressure Pattern Rule and the
\* Verifiability Rule each add at most one signal; the Legal Clause Rule,
\* active in a legal agreement only, adds exactly one signal per pattern that
\* matches: as many signals as matching patterns, one of each pattern's name.
C7_SignalsPerRule ==
  [][ pc = "rules" =>
        LET added == SubSeq(signals', Len(signals) + 1, Len(signals'))
        IN  /\ signals' = signals \o added
            /\ order[rule_index] # "LegalClauseRule" => Len(added) <= 1
            /\ (order[rule_index] = "LegalClauseRule" /\ context = "legal_agreement") =>
                 /\ Len(added) = Cardinality(MatchingPatterns)
                 /\ \A i \in MatchingPatterns :
                      Cardinality({ k \in DOMAIN added :
                                      added[k].name = CONCERNING_PATTERNS[i].name }) = 1
            /\ (order[rule_index] = "LegalClauseRule" /\ context # "legal_agreement") =>
                 added = <<>>
    ]_vars

\* an agreement for which the Legal Clause Rule gave three signals or more
\* and the High-Pressure Pattern Rule one
C7_Witness ==
  /\ pc = "severity"
  /\ context = "legal_agreement"
  /\ Cardinality(MatchingPatterns) >= 3
  /\ Len(signals) = Cardinality(MatchingPatterns) + 1
  /\ signals[Len(signals)].name = "Predatory Pressure Pattern"


\* the matching patterns whose severity makes a red signal
RedMatchingPatterns ==
  { i \in MatchingPatterns : CONCERNING_PATTERNS[i].severity \in {"VERY_HIGH", "HIGH"} }

\* C8 as stated: for every legal agreement in which six or more of the
\* fourteen patterns match, whichever they are, the result is critical with
\* score 15 and the systemic-risk paragraph as its summary.
C8_Original ==
  (result # <<>> /\ result[1].detectedContext = "legal_agreement"
     /\ Cardinality(MatchingPatterns) >= 6) =>
    /\ result[1].severityLevel = "critical"
    /\ result[1].overall_score = 15
    /\ result[1].summary = SystemicRiskParagraph

\* C8, amended: for every legal agreement in which six or more patterns of
\* severity HIGH or VERY_HIGH match, the result is critical with score 15, and
\* its summary is the systemic-risk paragraph unless the enhancement service
\* answered with a rewritten text, which then is the summary.
C8_SixRedPatternsAreCritical ==
  (result # <<>> /\ result[1].detectedContext = "legal_agreement"
     /\ Cardinality(RedMatchingPatterns) >= 6) =>
    /\ result[1].severityLevel = "critical"
    /\ result[1].overall_score = 15
    /\ result[1].summary =
         IF gemini = "ok" THEN RewrittenSummary ELSE SystemicRiskParagraph

\* an agreement with exactly six red patterns and a yellow one, returned with
\* the paragraph
C8_Witness ==
  /\ result # <<>>
  /\ result[1].detectedContext = "legal_agreement"
  /\ Cardinality(RedMatchingPatterns) = 6
  /\ Cardinality(MatchingPatterns) > 6
  /\ result[1].concernCount = 6
  /\ result[1].summary = SystemicRiskParagraph

ScrapeEvents == {"scrape.call", "scrape.http_get", "scrape.return"}
EnhanceEvents == {"enhance.call", "enhance.http_post", "enhance.return"}
RuleEvents == {rules[i] : i \in 1..Len(rules)}

\* the positions of the events of a set in the log
Positions(events) == { i \in DOMAIN log : log[i] \in events }

\* every event of the first set stands before every event of the second
Before(first, second) ==
  \A i \in Positions(first) : \A j \in Positions(second) : i < j

\* C9: in the events of one request the scrape is over before any rule is
\* evaluated; every rule is evaluated and the severity computed before the
\* templates are built; the enhancement starts after the templates; the scrape
\* call, its GET, the enhancement call and its POST each occur at most once,
\* whatever they answered.
C9_EventOrder ==
  /\ Before(ScrapeEvents, RuleEvents)
  /\ Before(RuleEvents \cup {"severity"}, {"templates"})
  /\ Positions({"templates"}) # {} =>
       /\ \A r \in RuleEvents : Positions({r}) # {}
       /\ Positions({"severity"}) # {}
  /\ Before({"templates"}, EnhanceEvents)
  /\ \A e \in {"scrape.call", "scrape.http_get", "enhance.call", "enhance.http_post"} :
       Cardinality(Positions({e})) <= 1

\* a request returned after both calls were sent and both failed
C9_Witness ==
  /\ pc = "done"
  /\ Positions({"scrape.http_get"}) # {} /\ ~scraped[1].success
  /\ Positions({"enhance.http_post"}) # {} /\ gemini \in GeminiFailures

\* how often x stands in seq
Occurrences(seq, x) == Cardinality({ i \in DOMAIN seq : seq[i] = x })

\* two sequences hold the same elements as often, in some order
SameCollection(a, b) ==
  /\ Len(a) = Len(b)
  /\ \A i \in DOMAIN a : Occurrences(a, a[i]) = Occurrences(b, a[i])

\* C10: with the three rules taken in any order, the signals collected are
\* those of the reference order up to reordering, each rule adding what it
\* gives on its own, and the concern count, tier and score are those of the
\* reference order.
C10_RulesOrderIndependent ==
  pc \notin {"detect", "scrape", "rules"} =>
    LET ref == ReferenceSignals
        reference == Severity(ConcernCount(ref))
    IN  /\ SameCollection(signals, ref)
        /\ result # <<>> =>
             /\ result[1].concernCount = ConcernCount(ref)
             /\ result[1].severityLevel = reference.severity_level
             /\ result[1].overall_score = reference.score

\* a request returned with the rules taken in another order and the signals
\* in another sequence than the reference's
C10_Witness ==
  /\ result # <<>>
  /\ order # rules
  /\ Len(signals) >= 2
  /\ signals # ReferenceSignals


\* C11: the enhancement service is called exactly when a key is configured
\* and the severity is critical or high; without a call the summary returned
\* is the template's; with a call that succeeds the summary alone is
\* replaced: whatYouMightMiss and the actions are the template values in every
\* case.
C11_EnhancementGuard ==
  /\ pc \in {"assemble", "done"} =>
       /\ (Positions({"enhance.call"}) # {}) <=>
            (api_key /\ severity.severity_level \in {"critical", "high"})
       /\ (Positions({"enhance.http_post"}) # {}) <=> (gemini # "not_called")
  /\ result # <<>> =>
       LET sigs == AISignals(result[1].signals)
           tier == result[1].severityLevel
           ctx == result[1].detectedContext
       IN  /\ gemini = "not_called" =>
                result[1].summary = _build_compound_explanation(sigs, ctx, tier)
           /\ gemini = "ok" => result[1].summary = RewrittenSummary
           /\ result[1].whatYouMightMiss = _build_what_you_might_miss(sigs, ctx, tier)
           /\ result[1].recommendedActions = _build_actions(ctx, tier, sigs)

\* a result whose summary was rewritten by the service, the two other fields
\* the templates'
C11_Witness ==
  /\ result # <<>>
  /\ gemini = "ok"
  /\ result[1].severityLevel = "high"
  /\ result[1].summary = RewrittenSummary
  /\ result[1].summary # ai.summary
  /\ result[1].whatYouMightMiss = ai.what_you_might_miss


\* the three cues of the High-Pressure Pattern Rule in the request
Cues ==
  LET low == lower(content)
  IN  [u |-> urgency(low), a |-> action_demand(low), c |-> consequence(low)]

\* C12: whatever the context, the High-Pressure Pattern Rule adds a red
\* 'Predatory Pressure Pattern' signal when urgency, action demand and
\* consequence all occur, a red 'High-Pressure Tactics' signal when urgency
\* and action demand occur without consequence, and nothing in the six other
\* combinations.
C12_PressureByCues ==
  [][ (pc = "rules" /\ order[rule_index] = "HighPressurePatternRule") =>
        LET added == SubSeq(signals', Len(signals) + 1, Len(signals'))
            cue == Cues
        IN  /\ (cue.u /\ cue.a /\ cue.c) =>
                 /\ Len(added) = 1
                 /\ added[1].name = "Predatory Pressure Pattern"
                 /\ added[1].level = "red"
                 /\ added[1].confidence = 95
            /\ (cue.u /\ cue.a /\ ~cue.c) =>
                 /\ Len(added) = 1
                 /\ added[1].name = "High-Pressure Tactics"
                 /\ added[1].level = "red"
                 /\ added[1].confidence = 85
            /\ ~(cue.u /\ cue.a) => added = <<>>
    ]_vars

\* the names of the two signals of the rule
PressureNames == {"Predatory Pressure Pattern", "High-Pressure Tactics"}

\* a vendor proposal with urgency and consequence and no action demand: the
\* rules are all evaluated and no pressure signal is among the signals
C12_Witness ==
  /\ pc = "severity"
  /\ context = "vendor_proposal"
  /\ Cues.u /\ ~Cues.a /\ Cues.c
  /\ \A i \in DOMAIN signals : signals[i].name \notin PressureNames


\* the verifiability cues present in the request
CuesPresent ==
  { c \in {"url", "linkedin", "email", "suffix"} :
      \/ c = "url" /\ has_website(content)
      \/ c = "linkedin" /\ has_linkedin(content)
      \/ c = "email" /\ has_domain_email(content)
      \/ c = "suffix" /\ has_company_name(content) }

\* C13: the Verifiability Rule adds nothing outside the three business
\* contexts; in them, with k of the four cues present, it adds a red 'Zero
\* Verifiable Identity' signal for k = 0, a yellow 'Limited Verifiability'
\* signal whose message reports k out of 4 for k = 1 or 2, and nothing for
\* k = 3 or 4.
C13_VerifiabilityByCues ==
  [][ (pc = "rules" /\ order[rule_index] = "VerifiabilityRule") =>
        LET added == SubSeq(signals', Len(signals) + 1, Len(signals'))
            k == Cardinality(CuesPresent)
            business == context \in {"partnership_offer", "client_inquiry", "vendor_proposal"}
        IN  /\ ~business => added = <<>>
            /\ (business /\ k = 0) =>
                 /\ Len(added) = 1
                 /\ added[1].name = "Zero Verifiable Identity"
                 /\ added[1].level = "red"
                 /\ added[1].confidence = 90
            /\ (business /\ k \in {1, 2}) =>
                 /\ Len(added) = 1
                 /\ added[1].name = "Limited Verifiability"
                 /\ added[1].level = "yellow"
                 /\ added[1].confidence = 75
                 /\ SubSeq(added[1].message, 1, 2) =
                      <<"Only ", IF k = 1 THEN "1" ELSE "2">>
                 /\ added[1].message[3] =
                      "/4 verification elements present. Request additional proof of legitimacy."
            /\ (business /\ k \in {3, 4}) => added = <<>>
    ]_vars

\* a client inquiry with two cues, reported as 2 out of 4
C13_Witness ==
  /\ pc = "severity"
  /\ context = "client_inquiry"
  /\ Cardinality(CuesPresent) = 2
  /\ \E i \in DOMAIN signals :
       /\ signals[i].name = "Limited Verifiability"
       /\ signals[i].message[2] = "2"


\* the names of the signals of sigs whose level is in levels, in order
NamesAt(sigs, levels) ==
  LET keep(s) == s.level \in levels
      kept == SelectSeq(sigs, keep)
  IN  [i \in 1..Len(kept) |-> kept[i].name]

\* the list, or the placeholder when the list is empty
OrPlaceholder(list, placeholder) == IF Len(list) = 0 THEN <<placeholder>> ELSE list

\* C14: assess_business_priority gives low/ignore/unfavorable whenever the
\* severity is critical or high; otherwise high/engage/favorable with two or
\* more green and no red signals, medium/monitor/neutral with one or more
\* green and at most one red signal, low/ignore/unfavorable in every other
\* case; confidenceFactors are the names of the green signals and concerns
\* those of the red and yellow ones, each replaced by its placeholder when
\* empty.
C14_BusinessPriorityTable ==
  priority # <<>> =>
    LET p == priority[1]
        verdict == <<p.strategicImportance, p.attentionWorthiness, p.riskToRewardBalance>>
        green == Cardinality({ i \in DOMAIN signals : signals[i].level = "green" })
        red == Cardinality(RedPositions(signals))
        forced == severity.severity_level \in {"critical", "high"}
    IN  /\ forced => verdict = <<"low", "ignore", "unfavorable">>
        /\ (~forced /\ green >= 2 /\ red = 0) => verdict = <<"high", "engage", "favorable">>
        /\ (~forced /\ green >= 1 /\ red <= 1 /\ ~(green >= 2 /\ red = 0)) =>
             verdict = <<"medium", "monitor", "neutral">>
        /\ (~forced /\ (green = 0 \/ red >= 2)) => verdict = <<"low", "ignore", "unfavorable">>
        /\ p.confidenceFactors =
             OrPlaceholder(NamesAt(signals, {"green"}), "Limited positive indicators")
        /\ p.concerns =
             OrPlaceholder(NamesAt(signals, {"red", "yellow"}), "No specific concerns flagged")

\* one green and one red signal at moderate severity: medium/monitor/neutral
C14_Witness ==
  /\ priority # <<>>
  /\ severity.severity_level = "moderate"
  /\ Cardinality({ i \in DOMAIN signals : signals[i].level = "green" }) = 1
  /\ Cardinality(RedPositions(signals)) = 1
  /\ priority[1].strategicImportance = "medium"
  /\ priority[1].confidenceFactors # <<"Limited positive indicators">>


\* C15 (as stated): whenever the generator has derived its severity, from
\* analyze or from /api/generate-summary, that severity is the severityLevel
\* carried in its input, and in analyze it is the severityLevel of the result.
C15_Original ==
  /\ (ai_input # <<>> /\ ai.severity # "") => ai.severity = ai_input[1].severityLevel
  /\ result # <<>> => ai.severity = result[1].severityLevel

\* C15, the part that holds: in analyze the severity the generator derives is
\* the severityLevel of its input and of the result.
C15_AnalyzeSeverityUnified ==
  /\ (ai_input # <<>> /\ ai.severity # "" /\ request = <<>>) =>
       /\ ai.severity = ai_input[1].severityLevel
       /\ ai_input[1].severityLevel = severity.severity_level
  /\ result # <<>> => ai.severity = result[1].severityLevel

\* a request of /api/generate-summary with a risk signal has been answered:
\* the generator derived a severity above the 'low' of its input
C15_Witness ==
  /\ response # <<>>
  /\ ~response[1].fallback
  /\ ai_input[1].severityLevel = "low"
  /\ ai.severity = "critical"


\* C16: severity high or critical is reached only for legal_agreement: a
\* result with a business context has a concern count of at most 2, one with
\* consumer_message of at most 1, so a result of any other context than
\* legal_agreement has severity low or moderate and score 80 or 55, the
\* enhancement service was not invoked for it, and its business priority, if
\* any, is not the one forced by critical or high severity.
C16_HighSeverityOnlyLegal ==
  result # <<>> =>
    LET r == result[1]
    IN  /\ r.detectedContext \in BusinessContexts => r.concernCount <= 2
        /\ r.detectedContext = "consumer_message" => r.concernCount <= 1
        /\ r.severityLevel \in {"high", "critical"} => r.detectedContext = "legal_agreement"
        /\ r.detectedContext # "legal_agreement" =>
             /\ r.severityLevel \in {"low", "moderate"}
             /\ r.overall_score \in {80, 55}
             /\ gemini = "not_called"
             /\ \A i \in DOMAIN log : log[i] \notin EnhanceEvents
             /\ r.businessPriority # <<>> =>
                  r.businessPriority[1].timeRecommendation # "Deprioritize"

\* a business result with the two red signals a business message can get,
\* with the enhancement key set
C16_Witness ==
  /\ result # <<>>
  /\ api_key
  /\ result[1].detectedContext \in BusinessContexts
  /\ result[1].concernCount = 2
  /\ result[1].severityLevel = "moderate"
  /\ result[1].overall_score = 55

\* C17: no rule emits a green signal: the signals of every result are red or
\* yellow, and a business priority present in a result is
\* low/ignore/unfavorable with the placeholder as its confidence factors.
C17_NoGreenSignal ==
  /\ \A i \in DOMAIN signals : signals[i].level \in {"red", "yellow"}
  /\ result # <<>> =>
       /\ \A i \in DOMAIN result[1].signals : result[1].signals[i].level \in {"red", "yellow"}
       /\ result[1].businessPriority # <<>> =>
            LET p == result[1].businessPriority[1]
            IN  /\ p.strategicImportance = "low"
                /\ p.attentionWorthiness = "ignore"
                /\ p.riskToRewardBalance = "unfavorable"
                /\ p.confidenceFactors = <<"Limited positive indicators">>

\* a business result with all four verification elements and no signal at
\* all: still low/ignore/unfavorable
C17_Witness ==
  /\ result # <<>>
  /\ result[1].businessPriority # <<>>
  /\ verifiable_count(content) = 4
  /\ result[1].signals = <<>>
  /\ result[1].businessPriority[1].strategicImportance = "low"
  /\ result[1].businessPriority[1].concerns = <<"No specific concerns flagged">>


\* the context families of the narrative and a context of each
Families == {"legal", "business", "consumer"}

FamilyContext(f) ==
  CASE f = "legal" -> "legal_agreement"
    [] f = "business" -> "partnership_offer"
    [] f = "consumer" -> "consumer_message"

SeverityLevels == {"low", "moderate", "high", "critical"}

\* the families one of whose whatYouMightMiss texts is text
WhatFamilies(text, sigs) ==
  { f \in Families :
      \E s \in SeverityLevels : text = _build_what_you_might_miss(sigs, FamilyContext(f), s) }

\* the families one of whose action lists is list
ActionFamilies(list, sigs) ==
  { f \in Families :
      \E s \in SeverityLevels : list = _build_actions(FamilyContext(f), s, sigs) }

\* C18: in what the generator returns, for client_inquiry the whatYouMightMiss
\* text is the business family's (that of partnership_offer and
\* vendor_proposal) and the action list is the consumer family's; for every
\* other context the text and the action list are of one and the same
\* family; the template summary does not depend on the context; the action
\* list has 3 to 5 entries.
C18_NarrativeFamilies ==
  ai_result # <<>> =>
    LET ctx == ai_input[1].detectedContext
        sigs == ai_input[1].signals
        what == WhatFamilies(ai_result[1].whatYouMightMiss, sigs)
        acts == ActionFamilies(ai_result[1].actions, sigs)
    IN  /\ Cardinality(what) = 1
        /\ Cardinality(acts) = 1
        /\ ctx = "client_inquiry" => what = {"business"} /\ acts = {"consumer"}
        /\ ctx # "client_inquiry" => what = acts
        /\ ctx \in {"partnership_offer", "vendor_proposal"} => what = {"business"}
        /\ ctx = "legal_agreement" => what = {"legal"}
        /\ ctx = "consumer_message" => what = {"consumer"}
        /\ \A c \in Contexts :
             ai.summary = _build_compound_explanation(sigs, c, ai.severity)
        /\ Len(ai_result[1].actions) \in 3..5

\* a client inquiry at critical severity: the business text with the five
\* actions of the consumer family
C18_Witness ==
  /\ ai_result # <<>>
  /\ ai_input[1].detectedContext = "client_inquiry"
  /\ ai.severity = "critical"
  /\ ai_result[1].whatYouMightMiss =
       _build_what_you_might_miss(<<>>, "vendor_proposal", "critical")
  /\ ai_result[1].actions = _build_actions("consumer_message", "high", <<>>)
  /\ Len(ai_result[1].actions) = 5


====
